---- MODULE Spec2Model ----
(***************************************************************************)
(* Model of src/main.py, the Streamlit front-end of the Stable Diffusion 2 *)
(* playground.  One browser session is modelled.  Every user event makes   *)
(* Streamlit execute the script (main) once from top to bottom; a step of  *)
(* the model is one user event followed by the script run it triggers.     *)
(* Widget values and st.session_state survive from run to run.             *)
(***************************************************************************)
EXTENDS Naturals, Sequences, FiniteSets, TLC

VARIABLES
    session_state,  \* st.session_state restricted to the image keys
    widgets,        \* value of every keyed widget, kept by Streamlit between runs
    run,            \* what the most recent script run did (calls, renders, results)
    rerunPending,   \* st.experimental_rerun() was raised and the rerun has not run yet
    lastGenerated,  \* image returned by the most recent generate call that completed
    stored          \* per image key, the image of the most recent set_image call

vars == <<session_state, widgets, run, rerunPending, lastGenerated, stored>>

-----------------------------------------------------------------------------
(* Bounds of the model *)

\* generate may return images with pixel content 1..MaxPx
MaxPx == 2
\* a drawing on the canvas paints 0..MaxPainted pixels
MaxPainted == 1

-----------------------------------------------------------------------------
(* Program constants *)

DEFAULT_PROMPT == "border collie puppy"
DEFAULT_WIDTH == 512
DEFAULT_HEIGHT == 512
OUTPUT_IMAGE_KEY == "output_img"
LOADED_IMAGE_KEY == "loaded_image"
DefaultNegativePrompt == ""
DefaultSteps == 50
\* guidance scale in tenths: 7.5
DefaultGuidance == 75
DefaultSliderSize == 512
UpscaleInputSize == 256

-----------------------------------------------------------------------------
(* Images.  px stands for the pixel content, w and h for the size, cp for  *)
(* the number of copy()/resize() calls that produced this object from the  *)
(* one that was decoded or generated.                                      *)

None == [px |-> 0, w |-> 0, h |-> 0, cp |-> 0]

\* PIL Image.copy(): a new object with the same pixels and size
copy(img) == [img EXCEPT !.cp = @ + 1]

\* PIL Image.resize((width, height)): a new object of exactly that size
resize(img, width, height) == [img EXCEPT !.w = width, !.h = height, !.cp = @ + 1]

\* side of the square image with pixel content p that generate may return
GenSize(p) == IF p = 1 THEN 512 ELSE 768

\* the images a completed generate call may return
GenImages == {[px |-> p, w |-> GenSize(p), h |-> GenSize(p), cp |-> 0] : p \in 1..MaxPx}

\* outcome of a generate call that raises
Raise == [px |-> 0, w |-> 0, h |-> 0, cp |-> 99]

GenOutcomes == GenImages \cup {Raise}

\* the files a user may drop on a file uploader (decoded by Image.open)
Files == {[px |-> MaxPx + 1, w |-> 640, h |-> 480, cp |-> 0]}

-----------------------------------------------------------------------------
(* Canvas drawings and masks *)

\* value of the canvas component: has is "image_data is not None", painted the
\* number of pixels with alpha > 0, on the background image the strokes were
\* drawn on
NoCanvasData == [has |-> FALSE, painted |-> 0, on |-> None]

NoMask == [painted |-> 0, on |-> None]

-----------------------------------------------------------------------------
(* Session image storage *)

\* variant of set_image: assigns a fresh dictionary holding only this key
set_image_Replace(ss, key, img) == [k \in {key} |-> img]

get_image(ss, key) == IF key \in DOMAIN ss THEN ss[key] ELSE None

set_image(ss, key, img) ==
    [k \in DOMAIN ss \cup {key} |-> IF k = key THEN img ELSE ss[k]]

-----------------------------------------------------------------------------
(* Widgets.  A widget is named <<prefix, name>> after its key.             *)

ButtonTabs == {"txt2img", "inpaint", "img2img", "upscale"}
UploaderTabs == {"inpainting", "img2img", "upscale"}
ParamNames == {"prompt", "negative-prompt", "steps", "guidance"}

ParamKeys == ButtonTabs \X ParamNames
SliderKeys == {<<"txt2img", "width">>, <<"txt2img", "height">>}
UploaderKeys == {<<t, "uploader">> : t \in UploaderTabs}
CanvasKey == <<"inpainting", "canvas">>
UseKey == <<"sidebar", "use">>
NoPress == <<"none", "none">>
BtnKey(prefix) == <<prefix, "btn">>

ValueKeys == ParamKeys \cup SliderKeys \cup UploaderKeys \cup {CanvasKey}

DefaultValue(k) ==
    CASE k[2] = "prompt" -> DEFAULT_PROMPT
      [] k[2] = "negative-prompt" -> DefaultNegativePrompt
      [] k[2] = "steps" -> DefaultSteps
      [] k[2] = "guidance" -> DefaultGuidance
      [] k[2] \in {"width", "height"} -> DefaultSliderSize
      [] k[2] = "uploader" -> None
      [] k[2] = "canvas" -> NoCanvasData

\* the text and slider widgets the user edits in this model: one parameter
\* in each tab; the width and height sliders stay at their default
EditableKeys ==
    {<<"txt2img", "prompt">>, <<"inpaint", "negative-prompt">>,
     <<"img2img", "steps">>, <<"upscale", "guidance">>}

\* the values a user may give a text or slider widget
InputValues(k) ==
    CASE k[2] = "prompt" -> {DEFAULT_PROMPT, "a red fox"}
      [] k[2] = "negative-prompt" -> {DefaultNegativePrompt, "blurry"}
      [] k[2] = "steps" -> {DefaultSteps, 20}
      [] k[2] = "guidance" -> {DefaultGuidance, 120}

-----------------------------------------------------------------------------
(* The script.  Each function of main.py is an operator over the context   *)
(* ctx of the run in progress:                                              *)
(*   ss        st.session_state                                             *)
(*   calls     the generate calls made so far, in order                     *)
(*   sets      the set_image calls made so far, in order, as <<key, img>>   *)
(*   returned  the image the generate call returned (None: no such call)    *)
(*   aborted   an exception left the script; nothing after it executes      *)
(*   rerun     st.experimental_rerun() was raised                           *)
(*   rendered  the widgets created so far                                   *)
(*   inputs    per uploader prefix, what image_uploader returned            *)
(*   inp       what inpainting() returned                                   *)
(*   sidebar   "unrendered", "text" (No output generated yet) or "image"    *)
(*   sidebarImg the image the sidebar shows                                 *)

Extend(f, k, v) == [x \in DOMAIN f \cup {k} |-> IF x = k THEN v ELSE f[x]]

InitCtx(ss) ==
    [ss |-> ss, calls |-> <<>>, sets |-> <<>>, returned |-> None,
     aborted |-> FALSE, rerun |-> FALSE, rendered |-> {},
     inputs |-> [t \in {} |-> None],
     inp |-> [image |-> None, mask |-> NoMask],
     sidebar |-> "unrendered", sidebarImg |-> None]

\* variant of GenerateCall: every tab reads the txt2img tab's parameter widgets
GenerateCall_FromTxt2img(W, prefix, pipeline_name, kwargs) ==
    [prompt |-> W[<<"txt2img", "prompt">>],
     pipeline_name |-> pipeline_name,
     negative_prompt |-> W[<<"txt2img", "negative-prompt">>],
     steps |-> W[<<"txt2img", "steps">>],
     guidance_scale |-> W[<<"txt2img", "guidance">>],
     kwargs |-> kwargs]

\* generate(prompt, pipeline_name, negative_prompt=, steps=, guidance_scale=, **kwargs)
\* as the script sees it: the arguments it passes
GenerateCall(W, prefix, pipeline_name, kwargs) ==
    [prompt |-> W[<<prefix, "prompt">>],
     pipeline_name |-> pipeline_name,
     negative_prompt |-> W[<<prefix, "negative-prompt">>],
     steps |-> W[<<prefix, "steps">>],
     guidance_scale |-> W[<<prefix, "guidance">>],
     kwargs |-> kwargs]

\* variant of prompt_and_generate_button: stores the returned image itself
prompt_and_generate_button_NoCopy(ctx, W, pressed, res, prefix, pipeline_name, kwargs) ==
    LET shown == [ctx EXCEPT !.rendered =
                      @ \cup {<<prefix, n>> : n \in ParamNames} \cup {BtnKey(prefix)}]
        called == [shown EXCEPT !.calls =
                      Append(@, [prompt |-> W[<<prefix, "prompt">>],
                                 pipeline_name |-> pipeline_name,
                                 negative_prompt |-> W[<<prefix, "negative-prompt">>],
                                 steps |-> W[<<prefix, "steps">>],
                                 guidance_scale |-> W[<<prefix, "guidance">>],
                                 kwargs |-> kwargs])]
    IN  IF pressed = BtnKey(prefix)
          THEN IF res = Raise
                 THEN [called EXCEPT !.aborted = TRUE]
                 ELSE [called EXCEPT
                          !.returned = res,
                          !.ss = set_image(@, OUTPUT_IMAGE_KEY, res),
                          !.sets = Append(@, <<OUTPUT_IMAGE_KEY, res>>)]
          ELSE shown

\* pressed is the button whose click triggered this run, res the outcome of
\* the generate call should one be made
prompt_and_generate_button(ctx, W, pressed, res, prefix, pipeline_name, kwargs) ==
    LET shown == [ctx EXCEPT !.rendered =
                      @ \cup {<<prefix, n>> : n \in ParamNames} \cup {BtnKey(prefix)}]
        called == [shown EXCEPT !.calls =
                      Append(@, GenerateCall(W, prefix, pipeline_name, kwargs))]
    IN  IF pressed = BtnKey(prefix)
          THEN IF res = Raise
                 THEN [called EXCEPT !.aborted = TRUE]
                 ELSE [called EXCEPT
                          !.returned = res,
                          !.ss = set_image(@, OUTPUT_IMAGE_KEY, copy(res)),
                          !.sets = Append(@, <<OUTPUT_IMAGE_KEY, copy(res)>>)]
          ELSE shown

width_and_height_sliders(W, prefix) ==
    <<W[<<prefix, "width">>], W[<<prefix, "height">>]>>

\* variant of image_uploader: falls back to the output image
image_uploader_ReadsOutput(W, ss, prefix, width, height) ==
    LET image == W[<<prefix, "uploader">>]
    IN  IF image # None
          THEN resize(image, width, height)
          ELSE get_image(ss, OUTPUT_IMAGE_KEY)

image_uploader(W, ss, prefix, width, height) ==
    LET image == W[<<prefix, "uploader">>]
    IN  IF image # None
          THEN resize(image, width, height)
          ELSE get_image(ss, LOADED_IMAGE_KEY)

\* variant of inpainting: returns the mask without testing mask.sum() > 0
inpainting_NoSumCheck(W, ss) ==
    LET image == image_uploader(W, ss, "inpainting", DEFAULT_WIDTH, DEFAULT_HEIGHT)
        canvas_result == W[CanvasKey]
        none == [image |-> None, mask |-> NoMask]
        up == {<<"inpainting", "uploader">>}
        all == up \cup {<<"inpainting", "brush">>, CanvasKey}
    IN  IF image = None
          THEN [input |-> image, result |-> none, rendered |-> up]
          ELSE IF ~canvas_result.has
            THEN [input |-> image, result |-> none, rendered |-> all]
            ELSE [input |-> image,
                  result |-> [image |-> image,
                              mask |-> [painted |-> canvas_result.painted,
                                        on |-> image]],
                  rendered |-> all]

\* returns the input image, the pair (image, mask) and the widgets created
inpainting(W, ss) ==
    LET image == image_uploader(W, ss, "inpainting", DEFAULT_WIDTH, DEFAULT_HEIGHT)
        canvas_result == W[CanvasKey]
        mask == canvas_result.painted
        none == [image |-> None, mask |-> NoMask]
        up == {<<"inpainting", "uploader">>}
        all == up \cup {<<"inpainting", "brush">>, CanvasKey}
    IN  IF image = None
          THEN [input |-> image, result |-> none, rendered |-> up]
          ELSE IF ~canvas_result.has
            THEN [input |-> image, result |-> none, rendered |-> all]
            ELSE IF mask > 0
              THEN [input |-> image,
                    result |-> [image |-> image,
                                mask |-> [painted |-> mask, on |-> canvas_result.on]],
                    rendered |-> all]
              ELSE [input |-> image, result |-> none, rendered |-> all]

txt2img_tab(ctx, W, pressed, res) ==
    IF ctx.aborted THEN ctx
    ELSE
    LET prefix == "txt2img"
        wh == width_and_height_sliders(W, prefix)
    IN  prompt_and_generate_button(
            [ctx EXCEPT !.rendered = @ \cup SliderKeys],
            W, pressed, res, prefix, "txt2img",
            [width |-> wh[1], height |-> wh[2]])

inpainting_tab(ctx, W, pressed, res) ==
    IF ctx.aborted THEN ctx
    ELSE
    LET r == inpainting(W, ctx.ss)
        image_input == r.result.image
        mask_input == r.result.mask
        col1 == [ctx EXCEPT !.rendered = @ \cup r.rendered,
                            !.inputs = Extend(@, "inpainting", r.input),
                            !.inp = r.result]
    IN  IF image_input # None /\ mask_input # NoMask
          THEN prompt_and_generate_button(col1, W, pressed, res, "inpaint", "inpaint",
                   [image_input |-> image_input, mask_input |-> mask_input])
          ELSE col1

img2img_tab(ctx, W, pressed, res) ==
    IF ctx.aborted THEN ctx
    ELSE
    LET image == image_uploader(W, ctx.ss, "img2img", DEFAULT_WIDTH, DEFAULT_HEIGHT)
        col1 == [ctx EXCEPT !.rendered = @ \cup {<<"img2img", "uploader">>},
                            !.inputs = Extend(@, "img2img", image)]
    IN  IF image # None
          THEN prompt_and_generate_button(col1, W, pressed, res, "img2img", "img2img",
                   [image_input |-> image])
          ELSE col1

upscale_tab(ctx, W, pressed, res) ==
    IF ctx.aborted THEN ctx
    ELSE
    LET prefix == "upscale"
        image == image_uploader(W, ctx.ss, prefix, UpscaleInputSize, UpscaleInputSize)
        up == [ctx EXCEPT !.rendered = @ \cup {<<prefix, "uploader">>},
                          !.inputs = Extend(@, prefix, image)]
    IN  prompt_and_generate_button(up, W, pressed, res, prefix, "upscale",
            [image_input |-> image])

\* variant of sidebar: the button stores the copy under the output key as well
sidebar_AlsoWritesOutput(ctx, pressed) ==
    IF ctx.aborted THEN ctx
    ELSE
    LET output_image == get_image(ctx.ss, OUTPUT_IMAGE_KEY)
    IN  IF output_image # None
          THEN LET shown == [ctx EXCEPT !.sidebar = "image",
                                        !.sidebarImg = output_image,
                                        !.rendered = @ \cup {UseKey}]
               IN  IF pressed = UseKey
                     THEN [shown EXCEPT
                              !.ss = set_image(
                                         set_image(@, LOADED_IMAGE_KEY, copy(output_image)),
                                         OUTPUT_IMAGE_KEY, copy(output_image)),
                              !.sets = Append(@, <<LOADED_IMAGE_KEY, copy(output_image)>>),
                              !.rerun = TRUE]
                     ELSE shown
          ELSE [ctx EXCEPT !.sidebar = "text"]

sidebar(ctx, pressed) ==
    IF ctx.aborted THEN ctx
    ELSE
    LET output_image == get_image(ctx.ss, OUTPUT_IMAGE_KEY)
    IN  IF output_image # None
          THEN LET shown == [ctx EXCEPT !.sidebar = "image",
                                        !.sidebarImg = output_image,
                                        !.rendered = @ \cup {UseKey}]
               IN  IF pressed = UseKey
                     THEN [shown EXCEPT
                              !.ss = set_image(@, LOADED_IMAGE_KEY, copy(output_image)),
                              !.sets = Append(@, <<LOADED_IMAGE_KEY, copy(output_image)>>),
                              !.rerun = TRUE]
                     ELSE shown
          ELSE [ctx EXCEPT !.sidebar = "text"]

main(W, ss, pressed, res) ==
    LET tab1 == txt2img_tab(InitCtx(ss), W, pressed, res)
        tab2 == inpainting_tab(tab1, W, pressed, res)
        tab3 == img2img_tab(tab2, W, pressed, res)
        tab4 == upscale_tab(tab3, W, pressed, res)
    IN  sidebar(tab4, pressed)

-----------------------------------------------------------------------------
(* Streamlit's session: one script run per event.                          *)

\* when a run finishes, a widget that the run did not create loses its state;
\* a run ended by an exception keeps every widget's state
on_script_finished(W, ctx) ==
    IF ctx.aborted THEN W
    ELSE [k \in ValueKeys |-> IF k \in ctx.rendered THEN W[k] ELSE DefaultValue(k)]

\* the record of a finished run
RunRecord(ctx, pressed) ==
    [pressed |-> pressed, calls |-> ctx.calls, sets |-> ctx.sets,
     returned |-> ctx.returned, aborted |-> ctx.aborted, rendered |-> ctx.rendered,
     inputs |-> ctx.inputs, inp |-> ctx.inp,
     sidebar |-> ctx.sidebar, sidebarImg |-> ctx.sidebarImg]

ImageKeys == {OUTPUT_IMAGE_KEY, LOADED_IMAGE_KEY}

\* the image of the last set_image(key, ...) call in the log sets, old if none
LastSet(sets, key, old) ==
    LET at == {i \in 1..Len(sets) : sets[i][1] = key}
    IN  IF at = {} THEN old
        ELSE sets[CHOOSE i \in at : \A j \in at : j <= i][2]

\* execute the script with widget values W after the click on pressed
ScriptRun(W, pressed, res) ==
    \E ctx \in {main(W, session_state, pressed, res)} :
        /\ session_state' = ctx.ss
        /\ widgets' = on_script_finished(W, ctx)
        /\ run' = RunRecord(ctx, pressed)
        /\ rerunPending' = ctx.rerun
        /\ lastGenerated' = IF ctx.returned # None THEN ctx.returned ELSE lastGenerated
        /\ stored' = [k \in ImageKeys |-> LastSet(ctx.sets, k, stored[k])]

\* the first run of a new session: default widgets, empty session state
Init ==
    LET W0 == [k \in ValueKeys |-> DefaultValue(k)]
        ss0 == [k \in {} |-> None]
        ctx == main(W0, ss0, NoPress, Raise)
    IN  /\ session_state = ctx.ss
        /\ widgets = on_script_finished(W0, ctx)
        /\ run = RunRecord(ctx, NoPress)
        /\ rerunPending = ctx.rerun
        /\ lastGenerated = None
        /\ stored = [k \in ImageKeys |-> LastSet(ctx.sets, k, None)]

\* the user types in a text area or moves a slider
EditWidget ==
    \E k \in EditableKeys : \E v \in InputValues(k) :
        /\ ~rerunPending
        /\ k \in run.rendered
        /\ v # widgets[k]
        /\ ScriptRun([widgets EXCEPT ![k] = v], NoPress, Raise)

\* the user drops a file on an uploader
Upload ==
    \E t \in UploaderTabs : \E f \in Files :
        /\ ~rerunPending
        /\ <<t, "uploader">> \in run.rendered
        /\ widgets[<<t, "uploader">>] # f
        /\ ScriptRun([widgets EXCEPT ![<<t, "uploader">>] = f], NoPress, Raise)

\* the user removes the file from an uploader
RemoveUpload ==
    \E t \in UploaderTabs :
        /\ ~rerunPending
        /\ <<t, "uploader">> \in run.rendered
        /\ widgets[<<t, "uploader">>] # None
        /\ ScriptRun([widgets EXCEPT ![<<t, "uploader">>] = None], NoPress, Raise)

\* the canvas reports its drawing: the strokes lie on the background image
\* that the latest run gave the canvas
Draw ==
    \E n \in 0..MaxPainted :
        LET value == [has |-> TRUE, painted |-> n,
                      on |-> IF n = 0 THEN None ELSE run.inputs["inpainting"]]
        IN  /\ ~rerunPending
            /\ CanvasKey \in run.rendered
            /\ widgets[CanvasKey] # value
            /\ ScriptRun([widgets EXCEPT ![CanvasKey] = value], NoPress, Raise)

\* the user clicks a tab's "Generate image" button
PressGenerate ==
    \E t \in ButtonTabs : \E res \in GenOutcomes :
        /\ ~rerunPending
        /\ BtnKey(t) \in run.rendered
        /\ ScriptRun(widgets, BtnKey(t), res)

\* the user clicks "Use this image for inpainting and img2img"
PressUse ==
    /\ ~rerunPending
    /\ UseKey \in run.rendered
    /\ ScriptRun(widgets, UseKey, Raise)

\* the rerun that st.experimental_rerun() asked for
Rerun ==
    /\ rerunPending
    /\ ScriptRun(widgets, NoPress, Raise)

Next ==
    \/ EditWidget
    \/ Upload
    \/ RemoveUpload
    \/ Draw
    \/ PressGenerate
    \/ PressUse
    \/ Rerun

Spec == Init /\ [][Next]_vars

-----------------------------------------------------------------------------
(* Properties *)

\* the tabs whose Generate button was rendered in the latest run and was the
\* button whose click triggered it
PressedTabs == {t \in ButtonTabs : run.pressed = BtnKey(t) /\ BtnKey(t) \in run.rendered}

\* the size image_uploader is asked for in each tab
InputSize ==
    [inpainting |-> <<DEFAULT_WIDTH, DEFAULT_HEIGHT>>,
     img2img |-> <<DEFAULT_WIDTH, DEFAULT_HEIGHT>>,
     upscale |-> <<UpscaleInputSize, UpscaleInputSize>>]

\* C1: a run calls generate if and only if the Generate button of a tab
\* rendered in that run was pressed; it then calls it exactly once, with that
\* tab's pipeline name and the prompt, negative prompt, steps and guidance
\* scale held by that tab's own widgets; a run without such a press makes no
\* generate call.
C1_GenerateIffPressed ==
    /\ (Len(run.calls) > 0) <=> (PressedTabs # {})
    /\ \A t \in PressedTabs :
          /\ Len(run.calls) = 1
          /\ run.calls[1].pipeline_name = t
          /\ run.calls[1].prompt = widgets[<<t, "prompt">>]
          /\ run.calls[1].negative_prompt = widgets[<<t, "negative-prompt">>]
          /\ run.calls[1].steps = widgets[<<t, "steps">>]
          /\ run.calls[1].guidance_scale = widgets[<<t, "guidance">>]

\* a press of the img2img Generate button with edited steps, while the
\* txt2img tab holds an edited prompt
C1_Witness ==
    /\ run.pressed = BtnKey("img2img")
    /\ Len(run.calls) = 1
    /\ run.calls[1].steps # DefaultSteps
    /\ widgets[<<"txt2img", "prompt">>] # DEFAULT_PROMPT

C3_UseThisImage ==
    [][
        /\ run'.pressed = UseKey =>
              /\ get_image(session_state, OUTPUT_IMAGE_KEY) # None
              /\ get_image(session_state', LOADED_IMAGE_KEY).px
                    = get_image(session_state, OUTPUT_IMAGE_KEY).px
              /\ get_image(session_state', LOADED_IMAGE_KEY).w
                    = get_image(session_state, OUTPUT_IMAGE_KEY).w
              /\ get_image(session_state', LOADED_IMAGE_KEY).h
                    = get_image(session_state, OUTPUT_IMAGE_KEY).h
              /\ get_image(session_state', LOADED_IMAGE_KEY).cp
                    = get_image(session_state, OUTPUT_IMAGE_KEY).cp + 1
              /\ rerunPending'
        /\ rerunPending => run'.pressed = NoPress
        /\ run'.pressed # UseKey =>
              \A t \in {"inpainting", "img2img"} :
                  (t \in DOMAIN run'.inputs /\ widgets'[<<t, "uploader">>] = None) =>
                      run'.inputs[t] = get_image(session_state', LOADED_IMAGE_KEY)
    ]_vars

\* the rerun after a press: both tabs, with empty uploaders, got the loaded image
C3_Witness ==
    /\ run.pressed = NoPress
    /\ ~rerunPending
    /\ LOADED_IMAGE_KEY \in DOMAIN session_state
    /\ widgets[<<"inpainting", "uploader">>] = None
    /\ widgets[<<"img2img", "uploader">>] = None
    /\ widgets[<<"upscale", "uploader">>] # None
    /\ "inpainting" \in DOMAIN run.inputs
    /\ run.inputs["inpainting"] = session_state[LOADED_IMAGE_KEY]
    /\ run.inputs["img2img"] = session_state[LOADED_IMAGE_KEY]

\* C4: get_image(k) is None when nothing was ever stored under k and
\* otherwise the image of the most recent set_image(k, img); a set_image on
\* one key leaves the other keys' values as they were.
C4_KeyValueStore ==
    \A k \in ImageKeys : get_image(session_state, k) = stored[k]

\* 'loaded_image' was stored, then 'output_img' was overwritten with another image
C4_Witness ==
    /\ stored[LOADED_IMAGE_KEY] # None
    /\ stored[OUTPUT_IMAGE_KEY] # None
    /\ stored[OUTPUT_IMAGE_KEY].px # stored[LOADED_IMAGE_KEY].px
    /\ Len(run.sets) = 1
    /\ run.sets[1][1] = OUTPUT_IMAGE_KEY

\* C5: whenever image_uploader(prefix, width, height) returns an image, the
\* image has size exactly (width, height): 512x512 in the inpainting and
\* img2img tabs, 256x256 in the upscale tab, from a file or from
\* 'loaded_image'.
C5_UploaderSize ==
    \A t \in DOMAIN run.inputs :
        run.inputs[t] # None =>
            /\ run.inputs[t].w = InputSize[t][1]
            /\ run.inputs[t].h = InputSize[t][2]

\* C6: after the input image of the inpainting tab changes, the mask that
\* inpainting() returns is never one drawn on the previous input image: a
\* returned mask was drawn on the image it is returned with.
C6_MaskDrawnOnInput ==
    run.inp.mask # NoMask => run.inp.mask.on = run.inp.image

\* C7: inpainting() returns (None, None) or an image with a mask of at least
\* one painted pixel; the inpaint Generate button is rendered only in runs
\* with an input image and a non-empty drawn mask, and an inpaint call gets
\* exactly that image and that mask.
C7_InpaintNeedsImageAndMask ==
    /\ \/ run.inp = [image |-> None, mask |-> NoMask]
       \/ /\ run.inp.image # None
          /\ run.inp.mask # NoMask
          /\ run.inp.mask.painted > 0
    /\ BtnKey("inpaint") \in run.rendered =>
          /\ "inpainting" \in DOMAIN run.inputs
          /\ run.inputs["inpainting"] # None
          /\ widgets[CanvasKey].has
          /\ widgets[CanvasKey].painted > 0
    /\ \A i \in 1..Len(run.calls) :
          run.calls[i].pipeline_name = "inpaint" =>
              /\ BtnKey("inpaint") \in run.rendered
              /\ run.calls[i].kwargs =
                    [image_input |-> run.inputs["inpainting"],
                     mask_input |-> [painted |-> widgets[CanvasKey].painted,
                                     on |-> widgets[CanvasKey].on]]

\* an inpaint call was made with an uploaded image and its mask
C7_Witness ==
    /\ run.pressed = BtnKey("inpaint")
    /\ Len(run.calls) = 1
    /\ run.calls[1].kwargs.image_input.px = MaxPx + 1
    /\ run.calls[1].kwargs.mask_input.painted > 0

\* C8: 'loaded_image' is present only if 'output_img' is; no key is ever
\* removed; 'output_img' is written only by a completed generate call and
\* 'loaded_image' only by a press of "Use this image"; a Generate press
\* leaves 'loaded_image' as it was and a "Use this image" press leaves
\* 'output_img' as it was.
C8_WhoWritesWhat ==
    [][
        /\ DOMAIN session_state \subseteq DOMAIN session_state'
        /\ LOADED_IMAGE_KEY \in DOMAIN session_state' =>
              OUTPUT_IMAGE_KEY \in DOMAIN session_state'
        /\ get_image(session_state', OUTPUT_IMAGE_KEY)
              # get_image(session_state, OUTPUT_IMAGE_KEY) =>
                  (run'.returned # None /\ run'.pressed \in {BtnKey(t) : t \in ButtonTabs})
        /\ get_image(session_state', LOADED_IMAGE_KEY)
              # get_image(session_state, LOADED_IMAGE_KEY) => run'.pressed = UseKey
        /\ run'.pressed \in {BtnKey(t) : t \in ButtonTabs} =>
              get_image(session_state', LOADED_IMAGE_KEY)
                  = get_image(session_state, LOADED_IMAGE_KEY)
        /\ run'.pressed = UseKey =>
              get_image(session_state', OUTPUT_IMAGE_KEY)
                  = get_image(session_state, OUTPUT_IMAGE_KEY)
    ]_vars

\* a Generate press completed while 'loaded_image' held an older image
C8_Witness ==
    /\ run.pressed \in {BtnKey(t) : t \in ButtonTabs}
    /\ run.returned # None
    /\ LOADED_IMAGE_KEY \in DOMAIN session_state
    /\ session_state[LOADED_IMAGE_KEY].px # session_state[OUTPUT_IMAGE_KEY].px

====
